---- MODULE Spec2Model ----
(***************************************************************************)
(* Model of FaceMaskDetector                                               *)
(* (src/workplace_screening/detect_facemask/detect_facemask.py).           *)
(*                                                                         *)
(* One FaceMaskDetector object used from a single thread of control.  The  *)
(* client calls detect_facemask, capture_frame_and_detect_facemask or      *)
(* capture_frame_and_detect_facemask_live; pc is the position inside the   *)
(* running method and op the client-level method that is running (or that  *)
(* ran last).  Probabilities are fixed-point numbers in thousandths.       *)
(* The diagnostic prints (lines 60-62, 68) change no state and are left    *)
(* out.                                                                    *)
(***************************************************************************)
EXTENDS Integers, Sequences, FiniteSets, TLC

\* ---- bounds of the model ------------------------------------------------
MaxFaces == 2          \* longest face sequence a frame yields
MaxFrames == 2         \* frames one live-stream call may read

\* ---- program constants --------------------------------------------------
One == 1000                       \* the literal 1 of "1-mask_prob[0][0]"
DefaultMaskProbability == 995     \* mask_probability=0.995
LiveMaskProbability == 975        \* mask_probability=0.975
MaskColor == <<0, 102, 0>>
NoMaskColor == <<33, 33, 183>>
InputIndex == 0                   \* input_details[0]['index']
OutputIndex == 1                  \* output_details[0]['index']

\* ---- inputs --------------------------------------------------------------
\* Face images are told apart by an identifier; the loaded model maps each
\* one to the probability of NOT wearing a mask.
FaceIds == {0, 1, 2}
FaceSeqs == UNION {[1..n -> FaceIds] : n \in 0..MaxFaces}
MaskProbabilities == {DefaultMaskProbability, LiveMaskProbability}
Keys == {"q", "other"}

\* The deterministic forward pass of the loaded interpreter:
\* 1-p is 0.995, 0.975 and 0.5 for the three face images.
Engine(face) == CASE face = 0 -> 5
                  [] face = 1 -> 25
                  [] OTHER    -> 500

VARIABLES
    faces,             \* self.faces
    labels,            \* self.labels
    colors,            \* self.colors
    input_details,     \* self.input_details[0]['index']
    output_details,    \* self.output_details[0]['index']
    inputTensor,       \* the interpreter's input tensor slot
    outputTensor,      \* the interpreter's output tensor slot
    pc,                \* position of the thread of control
    op,                \* client-level method running / last run
    mask_probability,  \* the mask_probability argument of op
    idx,               \* position of "for face in self.faces"
    label,             \* local variable label of detect_facemask
    retVal,            \* return value of the latest detect_facemask call
    result,            \* return value of capture_frame_and_detect_facemask
    key,               \* local variable key of the live loop
    framesRead,        \* frames read by the running live call
    framesShown,       \* frames shown (cv2.imshow) by the running live call
    windowsDestroyed,  \* cv2.destroyAllWindows calls of the live call
    \* history variables
    callFaces,         \* self.faces when the latest detect_facemask began
    callProb,          \* mask_probability of the latest detect_facemask
    invokes,           \* interpreter invocations of the latest call
    invokesOnFace,     \* interpreter invocations for the current face
    engineFailed,      \* an interpreter invocation raised
    repeat,            \* latest call repeats the arguments of the one before
    prevLabels,        \* self.labels when the latest call began
    prevColors,        \* self.colors when the latest call began
    prevRet            \* return value of the call before the latest

vars == <<faces, labels, colors, input_details, output_details, inputTensor,
          outputTensor, pc, op, mask_probability, idx, label, retVal, result,
          key, framesRead, framesShown, windowsDestroyed, callFaces, callProb,
          invokes, invokesOnFace, engineFailed, repeat, prevLabels,
          prevColors, prevRet>>

objectVars == <<faces, labels, colors>>
modelVars == <<input_details, output_details, inputTensor, outputTensor>>
liveVars == <<key, framesRead, framesShown, windowsDestroyed>>
histVars == <<callFaces, callProb, invokes, invokesOnFace, engineFailed,
              repeat, prevLabels, prevColors, prevRet>>

\* ---- pure helpers ----------------------------------------------------------

\* Mutant of Label: exclusive threshold.
LabelStrict(mask_prob, threshold) ==
    IF (One - mask_prob) > threshold THEN "Wearing Mask" ELSE "No Mask"

\* label = "Wearing Mask" if (1-mask_prob[0][0]) >= mask_probability else "No Mask"
Label(mask_prob, threshold) ==
    IF (One - mask_prob) >= threshold THEN "Wearing Mask" ELSE "No Mask"

\* color = (0, 102, 0) if "Wearing Mask" in label else (33, 33, 183)
Color(l) == IF l = "Wearing Mask" THEN MaskColor ELSE NoMaskColor

\* Mutant of AnyMask: every label instead of any label.
AllMask(ls) == \A i \in 1..Len(ls) : ls[i] = "Wearing Mask"

\* for label in self.labels: if "Wearing Mask" in label: return True
\* return False
AnyMask(ls) == \E i \in 1..Len(ls) : ls[i] = "Wearing Mask"

BoolStr(b) == IF b THEN "True" ELSE "False"

\* Where detect_facemask returns to: its caller's next statement.
ReturnPc(o) == CASE o = "single" -> "cap_summarize"
                 [] o = "live"   -> "live_poll"
                 [] OTHER        -> "idle"

\* return self.labels
get_labels == labels

\* ---- initial state: a constructed detector, no frame processed ----------
Init ==
    /\ faces = <<>>
    /\ labels = <<>>
    /\ colors = <<>>
    /\ input_details = InputIndex
    /\ output_details = OutputIndex
    /\ inputTensor = -1          \* allocate_tensors: nothing fed yet
    /\ outputTensor = -1
    /\ pc = "idle"
    /\ op = "none"
    /\ mask_probability = DefaultMaskProbability
    /\ idx = 0
    /\ label = "unset"
    /\ retVal = "unset"
    /\ result = "unset"
    /\ key = "other"
    /\ framesRead = 0
    /\ framesShown = 0
    /\ windowsDestroyed = 0
    /\ callFaces = <<>>
    /\ callProb = DefaultMaskProbability
    /\ invokes = 0
    /\ invokesOnFace = 0
    /\ engineFailed = FALSE
    /\ repeat = FALSE
    /\ prevLabels = <<>>
    /\ prevColors = <<>>
    /\ prevRet = "unset"

\* ---- the client ------------------------------------------------------------

\* The client loads an image and runs detect_faces (the precondition that
\* the docstring of detect_facemask states): self.faces is replaced.
DetectFaces ==
    /\ pc = "idle"
    /\ \E fs \in FaceSeqs : faces' = fs
    /\ UNCHANGED <<labels, colors, modelVars, pc, op, mask_probability, idx,
                   label, retVal, result, liveVars, histVars>>

\* The client calls detect_facemask(mask_probability=mp).
CallDetectFacemask ==
    /\ pc = "idle"
    /\ \E mp \in MaskProbabilities : mask_probability' = mp
    /\ op' = "direct"
    /\ pc' = "dm_begin"
    /\ UNCHANGED <<objectVars, modelVars, idx, label, retVal, result,
                   liveVars, histVars>>

\* The client calls capture_frame_and_detect_facemask(mask_probability=mp):
\* capture_frame_and_load_image, detect_faces, then the call of
\* detect_facemask.
CallCapture ==
    /\ pc = "idle"
    /\ \E mp \in MaskProbabilities : mask_probability' = mp
    /\ \E fs \in FaceSeqs : faces' = fs
    /\ op' = "single"
    /\ result' = "unset"
    /\ pc' = "dm_begin"
    /\ UNCHANGED <<labels, colors, modelVars, idx, label, retVal, liveVars,
                   histVars>>

\* The client calls capture_frame_and_detect_facemask_live: "while True".
CallLive ==
    /\ pc = "idle"
    /\ \E mp \in MaskProbabilities : mask_probability' = mp
    /\ op' = "live"
    /\ pc' = "live_read"
    /\ key' = "other"
    /\ framesRead' = 0
    /\ framesShown' = 0
    /\ windowsDestroyed' = 0
    /\ UNCHANGED <<objectVars, modelVars, idx, label, retVal, result,
                   histVars>>

\* ---- detect_facemask ---------------------------------------------------------

\* Mutant of DmBegin: neither list is replaced.
DmBeginNoReset ==
    /\ pc = "dm_begin"
    /\ UNCHANGED <<labels, colors>>
    /\ idx' = 0
    /\ label' = "unset"
    /\ retVal' = "unset"
    /\ callFaces' = faces
    /\ callProb' = mask_probability
    /\ invokes' = 0
    /\ invokesOnFace' = 0
    /\ repeat' = (retVal # "unset" /\ faces = callFaces
                  /\ mask_probability = callProb)
    /\ prevLabels' = labels
    /\ prevColors' = colors
    /\ prevRet' = retVal
    /\ pc' = "dm_loop"
    /\ UNCHANGED <<faces, modelVars, op, mask_probability, result, liveVars,
                   engineFailed>>

\* Mutant of DmBegin: self.colors is not replaced.
DmBeginKeepColors ==
    /\ pc = "dm_begin"
    /\ labels' = <<>>
    /\ UNCHANGED colors
    /\ idx' = 0
    /\ label' = "unset"
    /\ retVal' = "unset"
    /\ callFaces' = faces
    /\ callProb' = mask_probability
    /\ invokes' = 0
    /\ invokesOnFace' = 0
    /\ repeat' = (retVal # "unset" /\ faces = callFaces
                  /\ mask_probability = callProb)
    /\ prevLabels' = labels
    /\ prevColors' = colors
    /\ prevRet' = retVal
    /\ pc' = "dm_loop"
    /\ UNCHANGED <<faces, modelVars, op, mask_probability, result, liveVars,
                   engineFailed>>

\* self.labels = [] ; self.colors = []
\* (the history variables record what the call starts from)
DmBegin ==
    /\ pc = "dm_begin"
    /\ labels' = <<>>
    /\ colors' = <<>>
    /\ idx' = 0
    /\ label' = "unset"
    /\ retVal' = "unset"
    /\ callFaces' = faces
    /\ callProb' = mask_probability
    /\ invokes' = 0
    /\ invokesOnFace' = 0
    /\ repeat' = (retVal # "unset" /\ faces = callFaces
                  /\ mask_probability = callProb)
    /\ prevLabels' = labels
    /\ prevColors' = colors
    /\ prevRet' = retVal
    /\ pc' = "dm_loop"
    /\ UNCHANGED <<faces, modelVars, op, mask_probability, result, liveVars,
                   engineFailed>>

\* for face in self.faces:  -- the next face, or the end of the loop, where
\* the function falls off its end and returns None.
DmLoopHead ==
    /\ pc = "dm_loop"
    /\ IF idx < Len(faces)
       THEN /\ idx' = idx + 1
            /\ pc' = "dm_set"
            /\ UNCHANGED retVal
       ELSE /\ retVal' = "None"
            /\ pc' = ReturnPc(op)
            /\ UNCHANGED idx
    /\ UNCHANGED <<objectVars, modelVars, op, mask_probability, label,
                   result, liveVars, histVars>>

\* self.mask_model.set_tensor(self.input_details[0]['index'], face)
DmSetTensor ==
    /\ pc = "dm_set"
    /\ inputTensor' = faces[idx]
    /\ invokesOnFace' = 0
    /\ pc' = "dm_invoke"
    /\ UNCHANGED <<objectVars, input_details, output_details, outputTensor,
                   op, mask_probability, idx, label, retVal, result, liveVars,
                   callFaces, callProb, invokes, engineFailed, repeat,
                   prevLabels, prevColors, prevRet>>

\* Mutant of RaisePc: the live loop swallows the failure and goes on with
\* the next frame.
RaisePcNextFrame(o) == IF o = "live" THEN "live_read" ELSE "raised"

\* An exception raised inside detect_facemask: no try statement encloses
\* the invocation, in detect_facemask or in any of its callers, so it
\* leaves every method of the object.
RaisePc(o) == "raised"

\* Mutant of DmInvoke: a failed invocation is retried once.
DmInvokeRetry ==
    /\ pc = "dm_invoke"
    /\ invokes' = invokes + 1
    /\ invokesOnFace' = invokesOnFace + 1
    /\ \E ok \in BOOLEAN :
         IF ok
         THEN /\ outputTensor' = Engine(inputTensor)
              /\ pc' = "dm_get"
              /\ UNCHANGED engineFailed
         ELSE /\ pc' = IF invokesOnFace = 0 THEN "dm_invoke" ELSE RaisePc(op)
              /\ engineFailed' = (invokesOnFace # 0)
              /\ UNCHANGED outputTensor
    /\ UNCHANGED <<objectVars, input_details, output_details, inputTensor,
                   op, mask_probability, idx, label, retVal, result, liveVars,
                   callFaces, callProb, repeat, prevLabels, prevColors,
                   prevRet>>

\* self.mask_model.invoke()  -- one forward pass, which either fills the
\* output tensor or raises.
DmInvoke ==
    /\ pc = "dm_invoke"
    /\ invokes' = invokes + 1
    /\ invokesOnFace' = invokesOnFace + 1
    /\ \E ok \in BOOLEAN :
         IF ok
         THEN /\ outputTensor' = Engine(inputTensor)
              /\ pc' = "dm_get"
              /\ UNCHANGED engineFailed
         ELSE /\ pc' = RaisePc(op)
              /\ engineFailed' = TRUE
              /\ UNCHANGED outputTensor
    /\ UNCHANGED <<objectVars, input_details, output_details, inputTensor,
                   op, mask_probability, idx, label, retVal, result, liveVars,
                   callFaces, callProb, repeat, prevLabels, prevColors,
                   prevRet>>

\* mask_prob = self.mask_model.get_tensor(self.output_details[0]['index'])
\* label = ... ; color = ... ; self.labels.append(label) ;
\* self.colors.append(color)
DmClassify ==
    /\ pc = "dm_get"
    /\ label' = Label(outputTensor, mask_probability)
    /\ labels' = Append(labels, label')
    /\ colors' = Append(colors, Color(label'))
    /\ pc' = "dm_return"
    /\ UNCHANGED <<faces, modelVars, op, mask_probability, idx, retVal,
                   result, liveVars, histVars>>

\* Mutant of DmReturn: return True at the first masked face, otherwise go
\* on with the next face.
DmReturnAfterLoop ==
    /\ pc = "dm_return"
    /\ IF label = "Wearing Mask"
       THEN /\ retVal' = "True"
            /\ pc' = ReturnPc(op)
       ELSE /\ pc' = "dm_loop"
            /\ UNCHANGED retVal
    /\ UNCHANGED <<objectVars, modelVars, op, mask_probability, idx, label,
                   result, liveVars, histVars>>

\* if "Wearing Mask" in label: return True
\* return False            -- both inside the body of the for loop
DmReturn ==
    /\ pc = "dm_return"
    /\ retVal' = BoolStr(label = "Wearing Mask")
    /\ pc' = ReturnPc(op)
    /\ UNCHANGED <<objectVars, modelVars, op, mask_probability, idx, label,
                   result, liveVars, histVars>>

\* ---- capture_frame_and_detect_facemask, after detect_facemask ------------

\* self.draw_boxes_around_faces() ; the loop over self.labels ; return
CapSummarize ==
    /\ pc = "cap_summarize"
    /\ result' = BoolStr(AnyMask(labels))
    /\ pc' = "idle"
    /\ UNCHANGED <<objectVars, modelVars, op, mask_probability, idx, label,
                   retVal, liveVars, histVars>>

\* ---- capture_frame_and_detect_facemask_live ------------------------------

\* frame = self.vs.read() ; resize ; load_image_from_frame ; detect_faces ;
\* then the call of detect_facemask
LiveRead ==
    /\ pc = "live_read"
    /\ framesRead < MaxFrames
    /\ framesRead' = framesRead + 1
    /\ \E fs \in FaceSeqs : faces' = fs
    /\ pc' = "dm_begin"
    /\ UNCHANGED <<labels, colors, modelVars, op, mask_probability, idx,
                   label, retVal, result, key, framesShown, windowsDestroyed,
                   histVars>>

\* Mutant of LivePollKey: the loop is left as soon as 'q' is polled.
LivePollKeyBreak ==
    /\ pc = "live_poll"
    /\ \E k \in Keys :
         /\ key' = k
         /\ pc' = IF k = "q" THEN "live_destroy" ELSE "live_show"
    /\ UNCHANGED <<objectVars, modelVars, op, mask_probability, idx, label,
                   retVal, result, framesRead, framesShown, windowsDestroyed,
                   histVars>>

\* self.draw_boxes_around_faces() ; key = cv2.waitKey(1) & 0xFF
LivePollKey ==
    /\ pc = "live_poll"
    /\ \E k \in Keys : key' = k
    /\ pc' = "live_show"
    /\ UNCHANGED <<objectVars, modelVars, op, mask_probability, idx, label,
                   retVal, result, framesRead, framesShown, windowsDestroyed,
                   histVars>>

\* cv2.imshow("Frame", ...)
LiveShow ==
    /\ pc = "live_show"
    /\ framesShown' = framesShown + 1
    /\ pc' = "live_test"
    /\ UNCHANGED <<objectVars, modelVars, op, mask_probability, idx, label,
                   retVal, result, key, framesRead, windowsDestroyed,
                   histVars>>

\* if key == ord("q"): break     -- otherwise the next iteration
LiveTest ==
    /\ pc = "live_test"
    /\ pc' = IF key = "q" THEN "live_destroy" ELSE "live_read"
    /\ UNCHANGED <<objectVars, modelVars, op, mask_probability, idx, label,
                   retVal, result, liveVars, histVars>>

\* cv2.destroyAllWindows() ; the method returns
LiveDestroy ==
    /\ pc = "live_destroy"
    /\ windowsDestroyed' = windowsDestroyed + 1
    /\ pc' = "idle"
    /\ UNCHANGED <<objectVars, modelVars, op, mask_probability, idx, label,
                   retVal, result, key, framesRead, framesShown, histVars>>

\* ---- specifications -------------------------------------------------------

LiveStep == LivePollKey \/ LiveShow \/ LiveTest \/ LiveDestroy

Next ==
    \/ DetectFaces
    \/ CallDetectFacemask
    \/ CallCapture
    \/ CallLive
    \/ DmBegin
    \/ DmLoopHead
    \/ DmSetTensor
    \/ DmInvoke
    \/ DmClassify
    \/ DmReturn
    \/ CapSummarize
    \/ LiveRead
    \/ LivePollKey
    \/ LiveShow
    \/ LiveTest
    \/ LiveDestroy

Spec == Init /\ [][Next]_vars

\* The method runs in one thread that is not suspended: a step of the
\* live loop that can be taken is eventually taken.
LiveSpec == Init /\ [][Next]_vars /\ WF_vars(LiveStep)

TypeOK ==
    /\ faces \in FaceSeqs
    /\ Len(labels) <= MaxFaces
    /\ Len(colors) <= MaxFaces
    /\ pc \in {"idle", "dm_begin", "dm_loop", "dm_set", "dm_invoke", "dm_get",
               "dm_return", "cap_summarize", "live_read", "live_poll",
               "live_show", "live_test", "live_destroy", "raised"}
    /\ op \in {"none", "direct", "single", "live"}
    /\ retVal \in {"unset", "None", "True", "False"}
    /\ result \in {"unset", "True", "False"}
    /\ framesRead \in 0..MaxFrames

\* ---- properties --------------------------------------------------------------

\* What the threshold rule says of one face image, written out from the
\* documented rule: "wearing mask" confidence 1-p reaches the threshold.
WearsMask(face, threshold) == One - Engine(face) >= threshold

RuleLabel(face, threshold) ==
    IF WearsMask(face, threshold) THEN "Wearing Mask" ELSE "No Mask"

RuleColor(face, threshold) ==
    IF WearsMask(face, threshold) THEN <<0, 102, 0>> ELSE <<33, 33, 183>>

\* The latest detect_facemask call has returned (not raised, not running).
Returned == retVal # "unset"

\* C1: after a completed detect_facemask call on a frame with n faces the
\* stored sequences have exactly n entries, one label and one colour per
\* detected face.
C1_OneLabelPerFace ==
    Returned => /\ Len(labels) = Len(callFaces)
                /\ Len(colors) = Len(callFaces)

\* C2: capture_frame_and_detect_facemask returns True exactly when at least
\* one face of the captured frame classifies as "Wearing Mask" under the
\* threshold rule, whatever the position of that face.
C2_AnyFaceMasked ==
    (op = "single" /\ pc = "idle") =>
        result = BoolStr(\E i \in 1..Len(callFaces) :
                             WearsMask(callFaces[i], callProb))

\* C3: every entry detect_facemask appends is ("Wearing Mask", (0,102,0)) if
\* 1-p >= mask_probability for the face it was computed from and
\* ("No Mask", (33,33,183)) otherwise, the comparison being inclusive; the
\* i-th label and the i-th colour always agree.
C3_ThresholdRule ==
    /\ Len(labels) = Len(colors)
    /\ Len(labels) <= Len(callFaces)
    /\ \A i \in 1..Len(labels) :
         /\ labels[i] = RuleLabel(callFaces[i], callProb)
         /\ colors[i] = RuleColor(callFaces[i], callProb)
         /\ (colors[i] = <<0, 102, 0>>) <=> (labels[i] = "Wearing Mask")

\* C3 witness: a face whose 1-p equals the threshold has been labelled.
C3_Witness ==
    /\ Len(labels) = 1
    /\ One - Engine(callFaces[1]) = callProb
    /\ labels[1] = "Wearing Mask"
    /\ colors[1] = <<0, 102, 0>>

\* C4: labels and colors (and so get_labels) hold only entries appended by
\* the most recent detect_facemask call: there are never more of them than
\* that call made interpreter invocations, and a call that has left its
\* first statement behind holds nothing it did not append itself.
C4_OnlyLatestCall ==
    /\ Len(get_labels) <= invokes
    /\ Len(colors) <= invokes
    /\ (pc = "dm_loop" /\ idx = 0) => (get_labels = <<>> /\ colors = <<>>)

\* C4 witness: a call on a frame without faces has completed after a call
\* that had stored an entry, and nothing of the earlier call is left.
C4_Witness ==
    /\ Returned
    /\ callFaces = <<>>
    /\ prevLabels # <<>>
    /\ get_labels = <<>>
    /\ colors = <<>>

\* C5: for an empty face sequence detect_facemask invokes the interpreter
\* not at all and leaves labels and colors empty, and
\* capture_frame_and_detect_facemask returns False for that frame.
C5_EmptyFrame ==
    (callFaces = <<>> /\ pc # "dm_begin") =>
        /\ invokes = 0
        /\ labels = <<>>
        /\ colors = <<>>
        /\ (op = "single" /\ pc = "idle") => result = "False"

\* C5 witness: capture_frame_and_detect_facemask has returned for a frame
\* without faces, after a frame that had one.
C5_Witness ==
    /\ op = "single"
    /\ pc = "idle"
    /\ callFaces = <<>>
    /\ prevLabels # <<>>
    /\ result = "False"

\* C6 as stated: an interpreter failure inside the live loop does not end
\* it; the loop goes on with the next frame.
C6_LiveLoopSurvivesFailure ==
    (op = "live" /\ engineFailed) => pc # "raised"

\* C6 amended: an interpreter failure inside the live loop is not caught;
\* it leaves capture_frame_and_detect_facemask_live, so the loop ends with
\* the failing frame not shown and the windows not destroyed.
C6_FailureEndsLiveLoop ==
    (op = "live" /\ engineFailed) =>
        /\ pc = "raised"
        /\ framesShown = framesRead - 1
        /\ windowsDestroyed = 0

\* C6 witness: the interpreter failed on the second frame of a live call.
C6_Witness ==
    /\ op = "live"
    /\ engineFailed
    /\ framesRead = 2
    /\ framesShown = 1

\* C7: when the interpreter raises for a face, the failure leaves
\* detect_facemask; the interpreter was invoked once for that face, nothing
\* was appended for it, no later face is processed and no value is returned.
C7_FailurePropagates ==
    engineFailed =>
        /\ pc = "raised"
        /\ invokesOnFace = 1
        /\ invokes = idx
        /\ Len(labels) = idx - 1
        /\ Len(colors) = idx - 1
        /\ retVal = "unset"

\* C7 witness: the interpreter failed on the first of two faces.
C7_Witness ==
    /\ engineFailed
    /\ op = "direct"
    /\ Len(faces) = 2
    /\ idx = 1
    /\ labels = <<>>

\* C8: a detect_facemask call with the same faces and the same
\* mask_probability as the call before it ends with the same labels, the
\* same colors and the same return value; the tensor descriptors are never
\* changed.
C8_Idempotent ==
    /\ (repeat /\ Returned) => /\ labels = prevLabels
                               /\ colors = prevColors
                               /\ retVal = prevRet
    /\ input_details = InputIndex
    /\ output_details = OutputIndex

\* C8 witness: a repeated call on a frame with faces has returned.
C8_Witness ==
    /\ repeat
    /\ Returned
    /\ Len(callFaces) = 2
    /\ labels # <<>>

C10_LiveLoop ==
    /\ []((op = "live" /\ pc \in {"live_destroy", "idle"}) =>
              /\ key = "q"
              /\ framesShown >= 1
              /\ framesShown = framesRead)
    /\ [](op = "live" =>
              windowsDestroyed = IF pc = "idle" THEN 1 ELSE 0)
    /\ [][(pc = "live_test" /\ key # "q") => pc' = "live_read"]_vars
    /\ ((op = "live" /\ pc = "live_show" /\ key = "q")
            ~> (op = "live" /\ pc = "idle" /\ windowsDestroyed = 1))

\* C10 witness: a live call has ended in its second iteration.
C10_Witness ==
    /\ op = "live"
    /\ pc = "idle"
    /\ key = "q"
    /\ framesRead = 2
    /\ framesShown = 2
    /\ windowsDestroyed = 1

====
